---- MODULE Spec2Model ----
(***************************************************************************)
(* Model of the s2n-quic perf client: the request loop of main             *)
(* (src/src/client.rs), the two data pumps send_bytes_on_channel and       *)
(* read_all_from_channel (src/src/common.rs) and the ctrl-c task that      *)
(* owns the sending side of the watch channel, and of the metrics sink     *)
(* RecoveryMetricsLogger (src/src/recovery_metrics_logger.rs) that the     *)
(* transport feeds when --cc-logfile is given.                             *)
(*                                                                         *)
(* The transport (s2n-quic) is the environment: every call on it is given  *)
(* a fate when it is issued ("ok", "err", or "hang" = never completes).    *)
(* The main task and the ctrl-c task run on a multi-threaded runtime, so   *)
(* every read of the flag is a step of its own.                            *)
(***************************************************************************)
EXTENDS Integers, Sequences, FiniteSets, TLC

\* ------------------------------------------------------------------ bounds
ByteBase == 4            \* number of values of one byte (256, scaled down)
DataLen == 1             \* length of the test-data pattern a chunk is cut from
MaxPayloadBatches == 2   \* full batches of the largest payload tried
MaxChunkBytes == 2       \* largest chunk the peer delivers
MaxRecvChunks == 2       \* most chunks the peer delivers in one receive
MaxRecvBatches == 2      \* receives per stream before the peer must close
MaxIters == 2            \* iterations of the request loop that are started
MaxEvents == 2           \* recovery-metrics events delivered to the logger
MaxConns == 2            \* connection contexts the logger is asked for
BufCap == 24             \* capacity of the BufWriter, in tokens

\* --------------------------------------------------------------- constants
HeaderLen == 8           \* size_of::<u64>(), the protocol header
ChunkSlots == 64         \* vec![Bytes::new(); 64]

U64Max == ByteBase ^ HeaderLen - 1
UsizeMax == U64Max       \* 64-bit target: usize is as wide as u64

Min(a, b) == IF a < b THEN a ELSE b

\* `x as usize`
AsUsize(x) == x % (UsizeMax + 1)

\* ------------------------------------------------------------ pure helpers
\* least significant byte first (what to_le_bytes would write)
ToLeBytes(n) == [i \in 1..HeaderLen |-> (n \div (ByteBase ^ (i - 1))) % ByteBase]

\* u64::to_be_bytes: most significant byte first.
ToBeBytes(n) == [i \in 1..HeaderLen |-> (n \div (ByteBase ^ (HeaderLen - i))) % ByteBase]

\* What a peer reading the header big-endian decodes (u64::from_be_bytes of
\* the first k bytes).
RECURSIVE FromBeBytes(_, _)
FromBeBytes(bs, k) ==
    IF k = 0 THEN 0
    ELSE FromBeBytes(bs, k - 1) * ByteBase + bs[k]

\* Data::send_one: the next chunk is cut from the static pattern, so it ends
\* at the pattern's end, at the data's end or when `amount` is used up.
SendOneLen(off, len, amount) ==
    Min(Min(amount, len - off), DataLen - (off % DataLen))

\* Data::send(amount, chunks): one turn of the loop over the slots.  st is
\* the loop's state: the data's offset and length, the amount left, the free
\* slots, and the chunks and bytes handed out so far.
FillOne(st) ==
    LET n == SendOneLen(st.off, st.len, st.amount)
    IN  [off |-> st.off + n, len |-> st.len, amount |-> st.amount - n,
         slots |-> st.slots - 1, count |-> st.count + 1,
         bytes |-> st.bytes + n]

\* Data::send(amount, chunks): the loop, until the slots, the amount or the
\* data run out.
RECURSIVE FillChunks(_)
FillChunks(st) ==
    IF st.slots = 0 \/ st.amount = 0 \/ st.off = st.len
    THEN [some |-> TRUE, count |-> st.count, bytes |-> st.bytes]
    ELSE CHOOSE r \in {FillChunks(next) : next \in {FillOne(st)}} : TRUE

RECURSIVE SumSeq(_)
SumSeq(s) == IF s = <<>> THEN 0 ELSE s[1] + SumSeq(Tail(s))

\* mutant: the data reports its end after the first batch
DataSend_EarlyNone(off, len) ==
    IF off = len \/ off > 0 THEN [some |-> FALSE, count |-> 0, bytes |-> 0]
    ELSE FillChunks([off |-> off, len |-> len, amount |-> UsizeMax,
                     slots |-> ChunkSlots, count |-> 0, bytes |-> 0])

\* Data::send as called at common.rs:20: None when the data is finished,
\* otherwise Some(count) with the offset advanced by the bytes handed out.
DataSend(off, len) ==
    IF off = len THEN [some |-> FALSE, count |-> 0, bytes |-> 0]
    ELSE FillChunks([off |-> off, len |-> len, amount |-> UsizeMax,
                     slots |-> ChunkSlots, count |-> 0, bytes |-> 0])

\* mutant: the loop starts at the second chunk
CountChunksShort(chunks, len) == SumSeq(SubSeq(chunks, 2, len))

\* The loop of common.rs:49-52 over chunks[..len].
RECURSIVE CountChunks(_, _)
CountChunks(chunks, len) ==
    IF len = 0 THEN 0
    ELSE CountChunks(chunks, len - 1) + chunks[len]

\* ------------------------------------------------------------ metrics sink
\* A text is a sequence of tokens: the text of one field, "," or "\n".

\* std::time::Duration
Duration(s, n) == [secs |-> s, nanos |-> n]

NanosPerSec == 1000000000

\* Duration::as_nanos
as_nanos(d) == d.secs * NanosPerSec + d.nanos

\* recovery_metrics_logger.rs:17-28
header_fields ==
    <<"time", "conn_id", "min_rtt", "smoothed_rtt", "latest_rtt",
      "rtt_variance", "max_ack_delay", "pto_count", "congestion_window",
      "bytes_in_flight">>

\* [&str]::join
RECURSIVE join(_, _)
join(fields, sep) ==
    IF Len(fields) = 0 THEN <<>>
    ELSE IF Len(fields) = 1 THEN <<fields[1]>>
    ELSE join(SubSeq(fields, 1, Len(fields) - 1), sep)
             \o <<sep, fields[Len(fields)]>>

\* File::create and BufWriter::new of client.rs:99-100
NewWriter == [buf |-> <<>>, file |-> <<>>]

\* BufWriter::write_all: what does not fit after the buffered tokens makes
\* the buffer go to the file first; a piece as large as the buffer goes to
\* the file directly.
BufWrite(w, piece) ==
    LET room == IF Len(w.buf) + Len(piece) > BufCap
                THEN [buf |-> <<>>, file |-> w.file \o w.buf]
                ELSE w
    IN  IF Len(piece) >= BufCap
        THEN [buf |-> room.buf, file |-> room.file \o piece]
        ELSE [buf |-> room.buf \o piece, file |-> room.file]

\* write_fmt: every argument and every literal of the format string is one
\* write_all
RECURSIVE WriteAll(_, _)
WriteAll(w, pieces) ==
    IF pieces = <<>> THEN w
    ELSE WriteAll(BufWrite(w, pieces[1]), Tail(pieces))

\* BufWriter::flush
Flush(w) == [buf |-> <<>>, file |-> w.file \o w.buf]

\* RecoveryMetricsLogger::new: writeln!(logfile_writer, "{}", join(","))
new(w) == WriteAll(w, <<join(header_fields, ","), <<"\n">>>>)

\* mutant: smoothed_rtt and latest_rtt are written in each other's place
RowPieces_Swapped(now, meta, event) ==
    LET args == <<ToString(as_nanos(now)),
                  ToString(meta.id),
                  ToString(as_nanos(event.min_rtt)),
                  ToString(as_nanos(event.latest_rtt)),
                  ToString(as_nanos(event.smoothed_rtt)),
                  ToString(as_nanos(event.rtt_variance)),
                  ToString(as_nanos(event.max_ack_delay)),
                  ToString(event.pto_count),
                  ToString(event.congestion_window),
                  ToString(event.bytes_in_flight)>>
    IN  [i \in 1..(2 * Len(args)) |->
            IF i % 2 = 1 THEN <<args[(i + 1) \div 2]>>
            ELSE IF i = 2 * Len(args) THEN <<"\n">> ELSE <<",">>]

\* recovery_metrics_logger.rs:56-69: the pieces of
\* writeln!(.., "{},{},{},{},{},{},{},{},{},{}", ..)
RowPieces(now, meta, event) ==
    LET args == <<ToString(as_nanos(now)),
                  ToString(meta.id),
                  ToString(as_nanos(event.min_rtt)),
                  ToString(as_nanos(event.smoothed_rtt)),
                  ToString(as_nanos(event.latest_rtt)),
                  ToString(as_nanos(event.rtt_variance)),
                  ToString(as_nanos(event.max_ack_delay)),
                  ToString(event.pto_count),
                  ToString(event.congestion_window),
                  ToString(event.bytes_in_flight)>>
    IN  [i \in 1..(2 * Len(args)) |->
            IF i % 2 = 1 THEN <<args[(i + 1) \div 2]>>
            ELSE IF i = 2 * Len(args) THEN <<"\n">> ELSE <<",">>]

\* ------------------------------------------------------------------ inputs
PayloadSizes ==
    {0, 1, ChunkSlots * DataLen, MaxPayloadBatches * ChunkSlots * DataLen + 1}

\* --request-size values that pass the check of client.rs:66
RequestSizes == {HeaderLen + p : p \in PayloadSizes}

\* --response-size values
ResponseSizes == {0, 2, 3, U64Max}

\* what one receive_vectored call can put into the chunk buffer
RecvBatches ==
    UNION {[1..n -> 1..MaxChunkBytes] : n \in 0..MaxRecvChunks}

Fates == {"ok", "err", "hang"}

\* RecoveryMetrics events the transport reports
RecoveryMetricsEvents ==
    {[min_rtt |-> Duration(0, 1), smoothed_rtt |-> Duration(0, 2),
      latest_rtt |-> Duration(0, 3), rtt_variance |-> Duration(0, 4),
      max_ack_delay |-> Duration(0, 5), pto_count |-> 6,
      congestion_window |-> 7, bytes_in_flight |-> 8],
     [min_rtt |-> Duration(1, 0), smoothed_rtt |-> Duration(1, 20),
      latest_rtt |-> Duration(0, 30), rtt_variance |-> Duration(0, 0),
      max_ack_delay |-> Duration(0, 25), pto_count |-> 0,
      congestion_window |-> 12000, bytes_in_flight |-> 0]}

\* SystemTime::now().duration_since(UNIX_EPOCH)
Nows == {Duration(1, 7), Duration(2, 0)}

NoCall == [op |-> "none", fate |-> "none"]

VARIABLES
    request_size,        \* parsed --request-size
    amount_to_request,   \* client.rs:47
    flag,                \* value held by the watch channel
    version,             \* version of the watch channel
    seenVersion,         \* version quitting_receiver has marked as seen
    closed,              \* exit_sender has been dropped
    itask,               \* the spawned ctrl-c task
    pc,                  \* where the main task is
    call,                \* the transport call the main task is suspended in
    streamsOpened,       \* streams the transport has opened
    iterStarted,         \* iterations that went past client.rs:135
    iterDone,            \* iterations that went past client.rs:169
    sendCalls,           \* calls made on the current SendStream, in order
    offset,              \* data.offset()
    sndRes,              \* result of send_bytes_on_channel
    total_sent,          \* client.rs:142
    received_data_bytes, \* common.rs:38
    rcvRes,              \* result of read_all_from_channel
    rcvBatches,          \* receive_vectored calls issued on the stream
    peerDelivered,       \* bytes the peer has delivered on the stream
    peerClosed,          \* the peer has finished its side of the stream
    log,                 \* info!/error! lines written
    exitStatus,          \* how the process ended
    entryFlag,           \* the flag when the running pump was entered
    issuedAfterSet,      \* batches the running pump issued with the flag set
    logger,              \* the RecoveryMetricsLogger: "none", "live", "dropped"
    logfile_writer,      \* its writer: what is buffered, what is in the file
    contexts,            \* connection contexts handed out
    delivered            \* recovery-metrics events delivered, in order

vars == <<request_size, amount_to_request, flag, version, seenVersion, closed,
          itask, pc, call, streamsOpened, iterStarted, iterDone, sendCalls,
          offset, sndRes, total_sent, received_data_bytes, rcvRes, rcvBatches,
          peerDelivered, peerClosed, log, exitStatus, entryFlag,
          issuedAfterSet, logger, logfile_writer, contexts, delivered>>

inputVars == <<request_size, amount_to_request>>
watchVars == <<flag, version, closed, itask>>
countVars == <<streamsOpened, iterStarted, iterDone>>
sendVars == <<sendCalls, offset, sndRes, total_sent>>
recvVars == <<received_data_bytes, rcvRes, rcvBatches, peerDelivered,
              peerClosed>>
ghostVars == <<entryFlag, issuedAfterSet>>
sinkVars == <<logger, logfile_writer, contexts, delivered>>
mainVars == <<inputVars, watchVars, seenVersion, pc, call, countVars,
              sendVars, recvVars, log, exitStatus, ghostVars>>

\* client.rs:70
amount_to_send == request_size - HeaderLen

\* watch::Receiver::changed() is ready
ChangedReady == seenVersion # version \/ closed

\* State at client.rs:125, the sizes parsed and the ctrl-c task spawned.
MainInit ==
    /\ request_size \in RequestSizes
    /\ amount_to_request \in ResponseSizes
    /\ flag = FALSE
    /\ version = 0
    /\ seenVersion = 0
    /\ closed = FALSE
    /\ itask = "waiting"
    /\ pc = "connecting"
    /\ call \in {[op |-> "connect", fate |-> f] : f \in Fates}
    /\ streamsOpened = 0
    /\ iterStarted = 0
    /\ iterDone = 0
    /\ sendCalls = <<>>
    /\ offset = 0
    /\ sndRes = "none"
    /\ total_sent = 0
    /\ received_data_bytes = 0
    /\ rcvRes = "none"
    /\ rcvBatches = 0
    /\ peerDelivered = 0
    /\ peerClosed = FALSE
    /\ log = {"started"}
    /\ exitStatus = "running"
    /\ entryFlag = FALSE
    /\ issuedAfterSet = 0

\* client.rs:106: without --cc-logfile the client has no event subscriber.
Init ==
    /\ MainInit
    /\ logger = "none"
    /\ logfile_writer = NewWriter
    /\ contexts = 0
    /\ delivered = <<>>

\* ------------------------------------------------------------ ctrl-c task
\* mutant: the task keeps waiting for signals and sends the negated value
CtrlC_Repeat ==
    /\ itask = "waiting"
    /\ version < 2
    /\ itask' = "waiting"
    /\ flag' = ~flag
    /\ version' = version + 1
    /\ closed' = FALSE
    /\ log' = log \cup {"ctrl_c"}
    /\ UNCHANGED sinkVars
    /\ UNCHANGED <<inputVars, seenVersion, pc, call, countVars, sendVars,
                   recvVars, exitStatus, ghostVars>>

\* client.rs:114-118: the signal arrives, true is sent, the sender dropped.
CtrlC ==
    /\ itask = "waiting"
    /\ itask' = "done"
    /\ flag' = TRUE
    /\ version' = version + 1
    /\ closed' = TRUE
    /\ log' = log \cup {"ctrl_c"}
    /\ UNCHANGED sinkVars
    /\ UNCHANGED <<inputVars, seenVersion, pc, call, countVars, sendVars,
                   recvVars, exitStatus, ghostVars>>

\* ---------------------------------------------------------------- main task
Panics ==
    /\ pc' = "panicked"
    /\ exitStatus' = "failure"

\* a new SendStream/ReceiveStream pair and the locals of one iteration
FreshIteration ==
    /\ sendCalls' = <<>>
    /\ offset' = 0
    /\ sndRes' = "none"
    /\ total_sent' = 0
    /\ received_data_bytes' = 0
    /\ rcvRes' = "none"
    /\ rcvBatches' = 0
    /\ peerDelivered' = 0
    /\ peerClosed' = FALSE
    /\ entryFlag' = FALSE
    /\ issuedAfterSet' = 0

\* client.rs:126: connect resolves to Ok and its branch is taken.
ConnectOk ==
    /\ pc = "connecting"
    /\ call = [op |-> "connect", fate |-> "ok"]
    /\ pc' = "loop_top"
    /\ call' = NoCall
    /\ log' = log \cup {"connected"}
    /\ UNCHANGED sinkVars
    /\ UNCHANGED <<inputVars, watchVars, seenVersion, countVars, sendVars,
                   recvVars, exitStatus, ghostVars>>

\* client.rs:126: connect resolves to Err; the pattern Ok(..) does not match,
\* select! disables the branch and goes on waiting for the other one.
ConnectErr ==
    /\ pc = "connecting"
    /\ call = [op |-> "connect", fate |-> "err"]
    /\ call' = [op |-> "connect", fate |-> "disabled"]
    /\ UNCHANGED sinkVars
    /\ UNCHANGED <<inputVars, watchVars, seenVersion, pc, countVars, sendVars,
                   recvVars, log, exitStatus, ghostVars>>

\* mutant: a quit during connection setup is returned as an error
OuterChanged_Err ==
    /\ pc = "connecting"
    /\ ChangedReady
    /\ seenVersion' = version
    /\ call' = [call EXCEPT !.op = "connect_dropped"]
    /\ log' = log \cup {"quit_setup"}
    /\ pc' = "exited"
    /\ exitStatus' = "failure"
    /\ UNCHANGED sinkVars
    /\ UNCHANGED <<inputVars, watchVars, countVars, sendVars, recvVars,
                   ghostVars>>

\* client.rs:184-186: changed() wins the outer select!; the connect future is
\* dropped whatever its fate was.
OuterChanged ==
    /\ pc = "connecting"
    /\ ChangedReady
    /\ seenVersion' = version
    /\ call' = [call EXCEPT !.op = "connect_dropped"]
    /\ log' = log \cup {"quit_setup"}
    /\ pc' = "stopped"
    /\ UNCHANGED sinkVars
    /\ UNCHANGED <<inputVars, watchVars, countVars, sendVars, recvVars,
                   exitStatus, ghostVars>>

\* client.rs:128-130: the inner select! creates the open future.
OpenIssue ==
    /\ pc = "loop_top"
    /\ pc' = "select_open"
    /\ \E f \in (IF iterStarted < MaxIters THEN Fates ELSE {"hang"}) :
           call' = [op |-> "open", fate |-> f]
    /\ UNCHANGED sinkVars
    /\ UNCHANGED <<inputVars, watchVars, seenVersion, countVars, sendVars,
                   recvVars, log, exitStatus, ghostVars>>

\* mutant: the check of client.rs:131 is missing
OpenCompletes_NoCheck ==
    /\ pc = "select_open"
    /\ call.op = "open"
    /\ call.fate \in {"ok", "err"}
    /\ call' = NoCall
    /\ streamsOpened' = IF call.fate = "ok" THEN streamsOpened + 1
                        ELSE streamsOpened
    /\ IF call.fate = "err"
       THEN /\ Panics
            /\ UNCHANGED <<iterStarted, sendVars, recvVars, ghostVars>>
       ELSE /\ pc' = "send_header"
            /\ iterStarted' = iterStarted + 1
            /\ FreshIteration
            /\ UNCHANGED exitStatus
    /\ UNCHANGED sinkVars
    /\ UNCHANGED <<inputVars, watchVars, seenVersion, iterDone, log>>

\* client.rs:130-135: the open future wins the inner select!.
OpenCompletes ==
    /\ pc = "select_open"
    /\ call.op = "open"
    /\ call.fate \in {"ok", "err"}
    /\ call' = NoCall
    /\ streamsOpened' = IF call.fate = "ok" THEN streamsOpened + 1
                        ELSE streamsOpened
    /\ IF flag
       THEN /\ pc' = "stopped"
            /\ UNCHANGED <<iterStarted, sendVars, recvVars, exitStatus,
                           ghostVars>>
       ELSE IF call.fate = "err"
       THEN /\ Panics
            /\ UNCHANGED <<iterStarted, sendVars, recvVars, ghostVars>>
       ELSE /\ pc' = "send_header"
            /\ iterStarted' = iterStarted + 1
            /\ FreshIteration
            /\ UNCHANGED exitStatus
    /\ UNCHANGED sinkVars
    /\ UNCHANGED <<inputVars, watchVars, seenVersion, iterDone, log>>

\* mutant: the changed() branch logs but does not break
InnerChanged_NoBreak ==
    /\ pc = "select_open"
    /\ ChangedReady
    /\ seenVersion' = version
    /\ call' = [call EXCEPT !.op = "open_dropped"]
    /\ log' = IF flag THEN log \cup {"sigint"} ELSE log
    /\ pc' = "loop_top"
    /\ UNCHANGED sinkVars
    /\ UNCHANGED <<inputVars, watchVars, countVars, sendVars, recvVars,
                   exitStatus, ghostVars>>

\* client.rs:174-179: changed() wins the inner select!; the open future is
\* dropped whatever its fate was.
InnerChanged ==
    /\ pc = "select_open"
    /\ ChangedReady
    /\ seenVersion' = version
    /\ call' = [call EXCEPT !.op = "open_dropped"]
    /\ IF flag
       THEN /\ log' = log \cup {"sigint"}
            /\ pc' = "stopped"
       ELSE /\ pc' = "loop_top"
            /\ UNCHANGED log
    /\ UNCHANGED sinkVars
    /\ UNCHANGED <<inputVars, watchVars, countVars, sendVars, recvVars,
                   exitStatus, ghostVars>>

\* client.rs:139: send(amount_to_request.to_be_bytes()) is called.
SendHeaderIssue ==
    /\ pc = "send_header"
    /\ pc' = "header_wait"
    /\ sendCalls' = Append(sendCalls,
                           [call |-> "send",
                            bytes |-> ToBeBytes(amount_to_request),
                            count |-> 1, len |-> HeaderLen])
    /\ \E f \in Fates : call' = [op |-> "send", fate |-> f]
    /\ UNCHANGED sinkVars
    /\ UNCHANGED <<inputVars, watchVars, seenVersion, countVars, offset,
                   sndRes, total_sent, recvVars, log, exitStatus, ghostVars>>

\* client.rs:139: the header send completes; .unwrap()
SendHeaderDone ==
    /\ pc = "header_wait"
    /\ call.fate \in {"ok", "err"}
    /\ call' = NoCall
    /\ IF call.fate = "err"
       THEN Panics
       ELSE /\ pc' = "snd_enter"
            /\ UNCHANGED exitStatus
    /\ UNCHANGED sinkVars
    /\ UNCHANGED <<inputVars, watchVars, seenVersion, countVars, sendVars,
                   recvVars, log, ghostVars>>

\* client.rs:142, common.rs:12-13: send_bytes_on_channel is entered.
SndEnter ==
    /\ pc = "snd_enter"
    /\ pc' = "snd_check"
    /\ offset' = 0
    /\ entryFlag' = flag
    /\ issuedAfterSet' = 0
    /\ UNCHANGED sinkVars
    /\ UNCHANGED <<inputVars, watchVars, seenVersion, call, countVars,
                   sendCalls, sndRes, total_sent, recvVars, log, exitStatus>>

\* mutant: the sender never looks at the flag
SndCheck_NoPoll ==
    /\ pc = "snd_check"
    /\ pc' = "snd_data"
    /\ UNCHANGED sinkVars
    /\ UNCHANGED <<inputVars, watchVars, seenVersion, call, countVars,
                   sendVars, recvVars, log, exitStatus, ghostVars>>

\* common.rs:16-18
SndCheck ==
    /\ pc = "snd_check"
    /\ IF flag
       THEN /\ pc' = "snd_ret"
            /\ sndRes' = "ok"
       ELSE /\ pc' = "snd_data"
            /\ UNCHANGED sndRes
    /\ UNCHANGED sinkVars
    /\ UNCHANGED <<inputVars, watchVars, seenVersion, call, countVars,
                   sendCalls, offset, total_sent, recvVars, log, exitStatus,
                   ghostVars>>

\* common.rs:20-22: data.send returns Some(count), send_vectored is called.
SndBatch ==
    /\ pc = "snd_data"
    /\ LET d == DataSend(offset, amount_to_send)
       IN  /\ d.some
           /\ offset' = offset + d.bytes
           /\ sendCalls' = Append(sendCalls,
                                  [call |-> "send_vectored", bytes |-> <<>>,
                                   count |-> d.count, len |-> d.bytes])
    /\ \E f \in Fates : call' = [op |-> "send_vectored", fate |-> f]
    /\ pc' = "snd_wait"
    /\ issuedAfterSet' = IF flag THEN issuedAfterSet + 1 ELSE issuedAfterSet
    /\ UNCHANGED sinkVars
    /\ UNCHANGED <<inputVars, watchVars, seenVersion, countVars, sndRes,
                   total_sent, recvVars, log, exitStatus, entryFlag>>

\* mutant: the result of send_vectored is dropped and the loop goes on
SndBatchDone_IgnoreErr ==
    /\ pc = "snd_wait"
    /\ call.fate \in {"ok", "err"}
    /\ call' = NoCall
    /\ pc' = "snd_check"
    /\ UNCHANGED sinkVars
    /\ UNCHANGED <<inputVars, watchVars, seenVersion, countVars, sendVars,
                   recvVars, log, exitStatus, ghostVars>>

\* common.rs:22: send_vectored completes; `?`
SndBatchDone ==
    /\ pc = "snd_wait"
    /\ call.fate \in {"ok", "err"}
    /\ call' = NoCall
    /\ IF call.fate = "err"
       THEN /\ sndRes' = "err"
            /\ pc' = "snd_ret"
       ELSE /\ pc' = "snd_check"
            /\ UNCHANGED sndRes
    /\ UNCHANGED sinkVars
    /\ UNCHANGED <<inputVars, watchVars, seenVersion, countVars, sendCalls,
                   offset, total_sent, recvVars, log, exitStatus, ghostVars>>

\* mutant: the loop is left without finish()
SndFinish_NoFinish ==
    /\ pc = "snd_data"
    /\ ~DataSend(offset, amount_to_send).some
    /\ pc' = "snd_ret"
    /\ sndRes' = "ok"
    /\ UNCHANGED sinkVars
    /\ UNCHANGED <<inputVars, watchVars, seenVersion, call, countVars,
                   sendCalls, offset, total_sent, recvVars, log, exitStatus,
                   ghostVars>>

\* common.rs:24-27: data.send returns None; finish()?
SndFinish ==
    /\ pc = "snd_data"
    /\ ~DataSend(offset, amount_to_send).some
    /\ pc' = "snd_ret"
    /\ \E ok \in BOOLEAN :
           IF ok
           THEN /\ sendCalls' = Append(sendCalls,
                                       [call |-> "finish", bytes |-> <<>>,
                                        count |-> 0, len |-> 0])
                /\ sndRes' = "ok"
           ELSE /\ sndRes' = "err"
                /\ UNCHANGED sendCalls
    /\ UNCHANGED sinkVars
    /\ UNCHANGED <<inputVars, watchVars, seenVersion, call, countVars, offset,
                   total_sent, recvVars, log, exitStatus, ghostVars>>

\* mutant: the send side is not closed before the receive leg
SndReturn_SkipClose ==
    /\ pc = "snd_ret"
    /\ IF sndRes = "err"
       THEN /\ Panics
            /\ UNCHANGED total_sent
       ELSE /\ total_sent' = AsUsize(offset)
            /\ pc' = "check_quit"
            /\ UNCHANGED exitStatus
    /\ UNCHANGED sinkVars
    /\ UNCHANGED <<inputVars, watchVars, seenVersion, call, countVars,
                   sendCalls, offset, sndRes, recvVars, log, ghostVars>>

\* common.rs:31 and client.rs:142: Ok(data.offset()) or Err; .unwrap()
SndReturn ==
    /\ pc = "snd_ret"
    /\ IF sndRes = "err"
       THEN /\ Panics
            /\ UNCHANGED total_sent
       ELSE /\ total_sent' = AsUsize(offset)
            /\ pc' = "close"
            /\ UNCHANGED exitStatus
    /\ UNCHANGED sinkVars
    /\ UNCHANGED <<inputVars, watchVars, seenVersion, call, countVars,
                   sendCalls, offset, sndRes, recvVars, log, ghostVars>>

\* mutant: a sender that was cancelled early is not followed by close()
CloseIssue_OnlyIfComplete ==
    /\ pc = "close"
    /\ IF total_sent < amount_to_send
       THEN /\ pc' = "check_quit"
            /\ UNCHANGED <<sendCalls, call>>
       ELSE /\ pc' = "close_wait"
            /\ sendCalls' = Append(sendCalls,
                                   [call |-> "close", bytes |-> <<>>,
                                    count |-> 0, len |-> 0])
            /\ \E f \in Fates : call' = [op |-> "close", fate |-> f]
    /\ UNCHANGED sinkVars
    /\ UNCHANGED <<inputVars, watchVars, seenVersion, countVars, offset,
                   sndRes, total_sent, recvVars, log, exitStatus, ghostVars>>

\* client.rs:146: send.close() is called.
CloseIssue ==
    /\ pc = "close"
    /\ pc' = "close_wait"
    /\ sendCalls' = Append(sendCalls, [call |-> "close", bytes |-> <<>>,
                                       count |-> 0, len |-> 0])
    /\ \E f \in Fates : call' = [op |-> "close", fate |-> f]
    /\ UNCHANGED sinkVars
    /\ UNCHANGED <<inputVars, watchVars, seenVersion, countVars, offset,
                   sndRes, total_sent, recvVars, log, exitStatus, ghostVars>>

\* client.rs:146-151: close completes; .unwrap(); the "Sent" line
CloseDone ==
    /\ pc = "close_wait"
    /\ call.fate \in {"ok", "err"}
    /\ call' = NoCall
    /\ IF call.fate = "err"
       THEN /\ Panics
            /\ UNCHANGED log
       ELSE /\ pc' = "check_quit"
            /\ log' = log \cup {"sent"}
            /\ UNCHANGED exitStatus
    /\ UNCHANGED sinkVars
    /\ UNCHANGED <<inputVars, watchVars, seenVersion, countVars, sendVars,
                   recvVars, ghostVars>>

\* mutant: the receive leg is started without looking at the flag
CheckQuit_NoCheck ==
    /\ pc = "check_quit"
    /\ pc' = "rcv_enter"
    /\ UNCHANGED sinkVars
    /\ UNCHANGED <<inputVars, watchVars, seenVersion, call, countVars,
                   sendVars, recvVars, log, exitStatus, ghostVars>>

\* client.rs:153-155
CheckQuit ==
    /\ pc = "check_quit"
    /\ pc' = IF flag THEN "stopped" ELSE "rcv_enter"
    /\ UNCHANGED sinkVars
    /\ UNCHANGED <<inputVars, watchVars, seenVersion, call, countVars,
                   sendVars, recvVars, log, exitStatus, ghostVars>>

\* client.rs:159, common.rs:38-40: read_all_from_channel is entered.
RcvEnter ==
    /\ pc = "rcv_enter"
    /\ pc' = "rcv_check"
    /\ received_data_bytes' = 0
    /\ entryFlag' = flag
    /\ issuedAfterSet' = 0
    /\ UNCHANGED sinkVars
    /\ UNCHANGED <<inputVars, watchVars, seenVersion, call, countVars,
                   sendVars, rcvRes, rcvBatches, peerDelivered, peerClosed,
                   log, exitStatus>>

\* common.rs:43-45
RcvCheck ==
    /\ pc = "rcv_check"
    /\ IF flag
       THEN /\ pc' = "rcv_ret"
            /\ rcvRes' = "ok"
       ELSE /\ pc' = "rcv_recv"
            /\ UNCHANGED rcvRes
    /\ UNCHANGED sinkVars
    /\ UNCHANGED <<inputVars, watchVars, seenVersion, call, countVars,
                   sendVars, received_data_bytes, rcvBatches, peerDelivered,
                   peerClosed, log, exitStatus, ghostVars>>

\* common.rs:47: receive_vectored is called.
RcvIssue ==
    /\ pc = "rcv_recv"
    /\ pc' = "rcv_wait"
    /\ rcvBatches' = rcvBatches + 1
    /\ \E f \in Fates : call' = [op |-> "receive_vectored", fate |-> f]
    /\ issuedAfterSet' = IF flag THEN issuedAfterSet + 1 ELSE issuedAfterSet
    /\ UNCHANGED sinkVars
    /\ UNCHANGED <<inputVars, watchVars, seenVersion, countVars, sendVars,
                   received_data_bytes, rcvRes, peerDelivered, peerClosed,
                   log, exitStatus, entryFlag>>

\* common.rs:47-56: receive_vectored completes with (len, is_open) or Err.
RcvDone ==
    /\ pc = "rcv_wait"
    /\ call.fate \in {"ok", "err"}
    /\ call' = NoCall
    /\ IF call.fate = "err"
       THEN /\ rcvRes' = "err"
            /\ pc' = "rcv_ret"
            /\ UNCHANGED <<received_data_bytes, peerDelivered, peerClosed>>
       ELSE \E chunks \in RecvBatches :
            \E is_open \in (IF rcvBatches < MaxRecvBatches THEN BOOLEAN
                            ELSE {FALSE}) :
                /\ peerDelivered' = peerDelivered + SumSeq(chunks)
                /\ peerClosed' = ~is_open
                /\ received_data_bytes' =
                       received_data_bytes + CountChunks(chunks, Len(chunks))
                /\ IF is_open
                   THEN /\ pc' = "rcv_check"
                        /\ UNCHANGED rcvRes
                   ELSE /\ pc' = "rcv_ret"
                        /\ rcvRes' = "ok"
    /\ UNCHANGED sinkVars
    /\ UNCHANGED <<inputVars, watchVars, seenVersion, countVars, sendVars,
                   rcvBatches, log, exitStatus, ghostVars>>

\* common.rs:59 and client.rs:159-167: .unwrap(); the "Rcvd" line
RcvReturn ==
    /\ pc = "rcv_ret"
    /\ IF rcvRes = "err"
       THEN /\ Panics
            /\ UNCHANGED log
       ELSE /\ pc' = "validate"
            /\ log' = log \cup {"rcvd"}
            /\ UNCHANGED exitStatus
    /\ UNCHANGED sinkVars
    /\ UNCHANGED <<inputVars, watchVars, seenVersion, call, countVars,
                   sendVars, recvVars, ghostVars>>

\* mutant: the comparison does not look at the flag
Validate_NoFlagCheck ==
    /\ pc = "validate"
    /\ IF received_data_bytes # AsUsize(amount_to_request)
       THEN /\ log' = log \cup {"mismatch"}
            /\ pc' = "stopped"
            /\ UNCHANGED <<iterDone, sendVars, recvVars, ghostVars>>
       ELSE /\ pc' = "loop_top"
            /\ iterDone' = iterDone + 1
            /\ FreshIteration
            /\ UNCHANGED log
    /\ UNCHANGED sinkVars
    /\ UNCHANGED <<inputVars, watchVars, seenVersion, call, streamsOpened,
                   iterStarted, exitStatus>>

\* client.rs:169-173
Validate ==
    /\ pc = "validate"
    /\ IF received_data_bytes # AsUsize(amount_to_request) /\ ~flag
       THEN /\ log' = log \cup {"mismatch"}
            /\ pc' = "stopped"
            /\ UNCHANGED <<iterDone, sendVars, recvVars, ghostVars>>
       ELSE /\ pc' = "loop_top"
            /\ iterDone' = iterDone + 1
            /\ FreshIteration
            /\ UNCHANGED log
    /\ UNCHANGED sinkVars
    /\ UNCHANGED <<inputVars, watchVars, seenVersion, call, streamsOpened,
                   iterStarted, exitStatus>>

\* client.rs:189
MainReturn ==
    /\ pc = "stopped"
    /\ pc' = "exited"
    /\ exitStatus' = "success"
    /\ UNCHANGED sinkVars
    /\ UNCHANGED <<inputVars, watchVars, seenVersion, call, countVars,
                   sendVars, recvVars, log, ghostVars>>

MainNext ==
    \/ ConnectOk \/ ConnectErr \/ OuterChanged
    \/ OpenIssue \/ OpenCompletes \/ InnerChanged
    \/ SendHeaderIssue \/ SendHeaderDone
    \/ SndEnter \/ SndCheck \/ SndBatch \/ SndBatchDone \/ SndFinish
    \/ SndReturn
    \/ CloseIssue \/ CloseDone \/ CheckQuit
    \/ RcvEnter \/ RcvCheck \/ RcvIssue \/ RcvDone \/ RcvReturn
    \/ Validate \/ MainReturn

Next == CtrlC \/ MainNext

Spec == Init /\ [][Next]_vars

\* The runtime keeps polling the main task: a step of it that stays possible
\* is taken.  Nothing forces the operator to press ctrl-c.
FairSpec == Spec /\ WF_vars(MainNext)

\* -------------------------------------------------------------- the logger
\* State after client.rs:96-103: the file created, the logger constructed
\* and handed to the client.
SinkInit ==
    /\ MainInit
    /\ logger = "live"
    /\ logfile_writer = new(NewWriter)
    /\ contexts = 0
    /\ delivered = <<>>

\* recovery_metrics_logger.rs:39-45
create_connection_context ==
    /\ logger = "live"
    /\ contexts < MaxConns
    /\ contexts' = contexts + 1
    /\ UNCHANGED <<logger, logfile_writer, delivered>>
    /\ UNCHANGED mainVars

\* recovery_metrics_logger.rs:47-71; events reach the subscriber one at a
\* time (&mut self)
on_recovery_metrics ==
    /\ logger = "live"
    /\ Len(delivered) < MaxEvents
    /\ \E now \in Nows, id \in 0..(contexts - 1),
          event \in RecoveryMetricsEvents :
          LET meta == [id |-> id]
          IN  /\ logfile_writer' =
                     WriteAll(logfile_writer, RowPieces(now, meta, event))
              /\ delivered' = Append(delivered, [now |-> now, meta |-> meta,
                                                 event |-> event])
    /\ UNCHANGED <<logger, contexts>>
    /\ UNCHANGED mainVars

\* mutant: the writer is released with what it still buffers
drop_NoFlush ==
    /\ logger = "live"
    /\ logger' = "dropped"
    /\ logfile_writer' = [buf |-> <<>>, file |-> logfile_writer.file]
    /\ UNCHANGED <<contexts, delivered>>
    /\ UNCHANGED mainVars

\* recovery_metrics_logger.rs:74-79: flush, then the writer is released
drop ==
    /\ logger = "live"
    /\ logger' = "dropped"
    /\ logfile_writer' = Flush(logfile_writer)
    /\ UNCHANGED <<contexts, delivered>>
    /\ UNCHANGED mainVars

SinkNext == create_connection_context \/ on_recovery_metrics \/ drop

SinkSpec == SinkInit /\ [][SinkNext]_vars

TypeOK ==
    /\ flag \in BOOLEAN
    /\ pc \in {"connecting", "loop_top", "select_open", "send_header",
               "header_wait", "snd_enter", "snd_check", "snd_data",
               "snd_wait", "snd_ret", "close", "close_wait", "check_quit",
               "rcv_enter", "rcv_check", "rcv_recv", "rcv_wait", "rcv_ret",
               "validate", "stopped", "exited", "panicked"}
    /\ exitStatus \in {"running", "success", "failure"}
    /\ offset \in 0..amount_to_send
    /\ streamsOpened \in 0..(MaxIters + 1)
    /\ logger \in {"none", "live", "dropped"}
    /\ contexts \in 0..MaxConns
    /\ Len(delivered) <= MaxEvents
    /\ Len(logfile_writer.buf) <= BufCap

\* ------------------------------------------------------- derived notions
Terminal == {"stopped", "exited", "panicked"}

SndPcs == {"snd_enter", "snd_check", "snd_data", "snd_wait", "snd_ret"}
RcvPcs == {"rcv_enter", "rcv_check", "rcv_recv", "rcv_wait", "rcv_ret"}

\* positions of the calls of one kind on the current SendStream
CallsOf(kind) == {i \in 1..Len(sendCalls) : sendCalls[i].call = kind}

RECURSIVE SumLens(_)
SumLens(is) ==
    IF is = {} THEN 0
    ELSE LET i == CHOOSE j \in is : TRUE
         IN  sendCalls[i].len + SumLens(is \ {i})

\* bytes handed to send_vectored on the current stream
PayloadBytes == SumLens(CallsOf("send_vectored"))

\* the main task is suspended in a transport call that never completes
Hung == call.fate = "hang" /\ call.op \in {"connect", "open", "send",
                                          "send_vectored", "close",
                                          "receive_vectored"}

\* ------------------------------------------------------------------ claims

\* C1 (chunking completeness): when the flag is not set and no transport
\* call failed, send_bytes_on_channel returns exactly amount_to_send, has
\* handed exactly that many bytes to send_vectored, and has called finish
\* exactly once, as the last call; for 0 bytes no batch is sent.  It
\* terminates: once entered it returns unless the flag is set, a call fails
\* or a call never completes.
C1_Safety ==
    (pc = "close" /\ ~flag) =>
        /\ total_sent = amount_to_send
        /\ PayloadBytes = amount_to_send
        /\ Cardinality(CallsOf("finish")) = 1
        /\ sendCalls[Len(sendCalls)].call = "finish"
        /\ (amount_to_send = 0 => CallsOf("send_vectored") = {})

C1_ChunkingCompleteness ==
    /\ []C1_Safety
    /\ (pc = "snd_enter") ~> (pc = "close" \/ flag \/ sndRes = "err" \/ Hung)

C1_Witness ==
    /\ pc = "close"
    /\ ~flag
    /\ Cardinality(CallsOf("send_vectored")) > MaxPayloadBatches
    /\ total_sent = amount_to_send

\* C2 as stated (cancellation promptness): a pump that returns after the
\* flag was set has issued no batch since the flag was set, so it returns
\* the bytes of the K batches issued before (0 if none was).
C2_Original ==
    /\ (pc = "snd_ret" /\ sndRes = "ok" /\ flag) =>
           (issuedAfterSet = 0 /\ offset = PayloadBytes)
    /\ (pc = "rcv_ret" /\ rcvRes = "ok" /\ flag) =>
           (issuedAfterSet = 0 /\ received_data_bytes = peerDelivered)

\* C2 as amended: a pump entered with the flag set returns 0; a pump returns
\* the sum of all the batches it issued, no batch counted twice or dropped;
\* at most one of them was issued after the flag was set (the one whose
\* check came before); a check that sees the flag issues nothing more.
C2_Returned ==
    /\ (pc = "snd_ret" /\ sndRes = "ok") =>
           /\ offset = PayloadBytes
           /\ issuedAfterSet <= 1
           /\ (entryFlag => offset = 0 /\ CallsOf("send_vectored") = {})
    /\ (pc = "rcv_ret" /\ rcvRes = "ok") =>
           /\ received_data_bytes = peerDelivered
           /\ issuedAfterSet <= 1
           /\ (entryFlag => received_data_bytes = 0 /\ rcvBatches = 0)

C2_ObservedStops ==
    /\ (pc = "snd_check" /\ flag /\ pc' # pc) =>
           (pc' = "snd_ret" /\ sendCalls' = sendCalls /\ offset' = offset)
    /\ (pc = "rcv_check" /\ flag /\ pc' # pc) =>
           (pc' = "rcv_ret" /\ rcvBatches' = rcvBatches
            /\ received_data_bytes' = received_data_bytes)

C2_CancellationPromptness ==
    /\ []C2_Returned
    /\ [][C2_ObservedStops]_vars

C2_Witness ==
    /\ pc = "snd_ret"
    /\ sndRes = "ok"
    /\ flag
    /\ issuedAfterSet = 1
    /\ 0 < offset
    /\ offset < amount_to_send

\* C3 (receiver termination): when the flag is not set and no receive
\* failed, read_all_from_channel returns only after the peer has closed and
\* returns exactly the bytes the peer delivered, however they were split.
C3_ReceiverTermination ==
    (pc = "rcv_ret" /\ rcvRes = "ok" /\ ~flag) =>
        (peerClosed /\ received_data_bytes = peerDelivered)

C3_Witness ==
    /\ pc = "rcv_ret"
    /\ rcvRes = "ok"
    /\ ~flag
    /\ rcvBatches = 1
    /\ received_data_bytes = MaxRecvChunks * MaxChunkBytes

\* C4 (mismatch detection): at client.rs:169 a received count that differs
\* from the requested amount, with the flag not set, logs the mismatch and
\* leaves the loop; otherwise the loop goes on to the next iteration.  After
\* a mismatch no stream is opened, nothing fails, and the process ends with
\* success.
C4_ValidateStep ==
    (pc = "validate" /\ pc' # pc) =>
        IF received_data_bytes # amount_to_request /\ ~flag
        THEN "mismatch" \in log' /\ pc' = "stopped"
        ELSE pc' = "loop_top" /\ log' = log

C4_AfterMismatch ==
    ("mismatch" \in log) =>
        /\ pc \in {"stopped", "exited"}
        /\ streamsOpened' = streamsOpened
        /\ iterStarted' = iterStarted
        /\ exitStatus' \in {"running", "success"}

C4_MismatchDetection ==
    /\ [][C4_ValidateStep /\ C4_AfterMismatch]_vars
    /\ ("mismatch" \in log) ~> (pc = "exited" /\ exitStatus = "success")

C4_Witness ==
    /\ "mismatch" \in log
    /\ ~flag
    /\ pc = "exited"
    /\ exitStatus = "success"
    /\ iterDone > 0

\* C5 (header integrity): on every stream on which anything was written the
\* first call is the send of 8 bytes that decode, big-endian, to
\* amount_to_request; every payload batch comes after it.
C5_HeaderIntegrity ==
    (sendCalls # <<>>) =>
        /\ sendCalls[1].call = "send"
        /\ Len(sendCalls[1].bytes) = HeaderLen
        /\ FromBeBytes(sendCalls[1].bytes, HeaderLen) = amount_to_request
        /\ \A i \in CallsOf("send_vectored") : i > 1
        /\ CallsOf("send") = {1}

C5_Witness ==
    /\ CallsOf("send_vectored") # {}
    /\ amount_to_request = 3
    /\ sendCalls[1].bytes[HeaderLen] = 3

\* C6 as stated (propagation rule): once the flag is set the main task is
\* never stuck: whatever it is suspended in, it has a step to take.
C6_Original ==
    (flag /\ pc \notin Terminal) => ENABLED MainNext

\* C6 as amended: connect and stream open are raced against changed(); the
\* other calls are not, the flag is polled between them.  Once the flag is
\* set no new iteration is started, changed() is ready wherever it is
\* awaited, and the main task stops, or panics on a failed call, or stays
\* suspended in a header send, batch send, close or receive that never
\* completes.
C6_NoNewIteration ==
    flag => /\ iterStarted' = iterStarted
            /\ (pc = "select_open" => pc' \in {"select_open", "stopped"})

C6_RacedPoints ==
    (flag /\ pc \in {"connecting", "select_open"}) => ChangedReady

C6_Propagation ==
    /\ [][C6_NoNewIteration]_vars
    /\ []C6_RacedPoints
    /\ flag ~> (pc \in Terminal
                \/ (Hung /\ call.op \in {"send", "send_vectored", "close",
                                         "receive_vectored"}))

C6_Witness ==
    /\ pc = "stopped"
    /\ flag
    /\ "sigint" \notin log
    /\ "quit_setup" \notin log
    /\ "mismatch" \notin log
    /\ total_sent < amount_to_send

\* C7 (connect failure exit): once connect has resolved to an error the
\* process has ended with a failure status.
C7_ConnectFailureExits ==
    (call.fate = "disabled") => (pc \in {"exited", "panicked"}
                                 /\ exitStatus = "failure")

\* C8 (connecting state): the main task leaves "connecting" either because
\* connect resolved to Ok, and is then in the loop, or because changed() won
\* with the flag set, and is then stopped.  While it waits there with the
\* flag set, changed() is ready.  After a quit during connection setup no
\* stream was opened, no error was logged, and the exit is a success.
C8_Leaves ==
    (pc = "connecting" /\ pc' # pc) =>
        \/ /\ call = [op |-> "connect", fate |-> "ok"]
           /\ pc' = "loop_top"
           /\ "connected" \in log'
        \/ /\ flag
           /\ pc' = "stopped"
           /\ "quit_setup" \in log'
           /\ "connected" \notin log'

C8_QuitDuringSetup ==
    /\ (pc = "connecting" /\ flag) => ChangedReady
    /\ ("quit_setup" \in log) =>
           /\ streamsOpened = 0
           /\ iterStarted = 0
           /\ sendCalls = <<>>
           /\ "mismatch" \notin log
           /\ pc \in {"stopped", "exited"}
           /\ exitStatus = IF pc = "exited" THEN "success" ELSE "running"

C8_ConnectingState ==
    /\ [][C8_Leaves]_vars
    /\ []C8_QuitDuringSetup

C8_Witness ==
    /\ "quit_setup" \in log
    /\ call = [op |-> "connect_dropped", fate |-> "hang"]
    /\ pc = "exited"
    /\ exitStatus = "success"

\* C9 (stream-open race): if the flag is set while the main task waits for
\* open_bidirectional_stream, it leaves the loop, also when the open never
\* completes.
C9_StreamOpenRace ==
    (pc = "select_open" /\ flag) ~> (pc \in {"stopped", "exited"})

C9_Witness ==
    /\ pc = "stopped"
    /\ flag
    /\ "sigint" \in log
    /\ call = [op |-> "open_dropped", fate |-> "hang"]

\* C10 (leg ordering): a receive is issued only on a stream whose send leg
\* has returned and whose send side was closed, the close being the last
\* call made on it; no send-side call is made once the receive leg started;
\* a stream is opened only when every started iteration has finished; at
\* most one iteration is in progress.
C10_State ==
    /\ (pc \in RcvPcs \/ rcvBatches > 0) =>
           /\ sndRes = "ok"
           /\ sendCalls # <<>>
           /\ sendCalls[Len(sendCalls)].call = "close"
           /\ call.op \in {"none", "receive_vectored"}
    /\ (pc \in SndPcs) => (rcvBatches = 0 /\ call.op \in {"none", "send_vectored"})
    /\ iterStarted - iterDone \in {0, 1}
    /\ (pc \in {"loop_top", "select_open"}) =>
           (iterStarted = iterDone /\ sendCalls = <<>> /\ rcvBatches = 0)
    /\ (pc \in SndPcs \cup RcvPcs) => iterStarted = iterDone + 1

C10_Step ==
    /\ (rcvBatches' > rcvBatches) =>
           (sendCalls' = sendCalls /\ sendCalls[Len(sendCalls)].call = "close")
    /\ (pc \in RcvPcs) => (sendCalls' = sendCalls \/ pc' = "loop_top")

C10_LegOrdering ==
    /\ []C10_State
    /\ [][C10_Step]_vars

C10_Witness ==
    /\ pc = "rcv_wait"
    /\ iterDone = 1
    /\ total_sent = amount_to_send
    /\ amount_to_send > 0


\* C11 as stated: under any interleaving with the ctrl-c task,
\* send_bytes_on_channel returns amount_to_send if and only if it called
\* finish.
C11_Original ==
    (pc = "snd_ret" /\ sndRes = "ok") =>
        (offset = amount_to_send <=> CallsOf("finish") # {})

\* C11 (sender end-of-stream): finish is called only after all
\* amount_to_send bytes were handed to send_vectored, once and as the last
\* call, so a sender that called finish returns amount_to_send; a sender
\* that returns without error and without finish observed the flag at a loop
\* check, which also happens after the last batch (or at entry for 0 bytes),
\* where it returns amount_to_send with the send side unfinished.
C11_FinishState ==
    CallsOf("finish") # {} =>
        /\ CallsOf("finish") = {Len(sendCalls)} \/ CallsOf("close") # {}
        /\ Cardinality(CallsOf("finish")) = 1
        /\ offset = amount_to_send
        /\ PayloadBytes = amount_to_send

C11_Returned ==
    (pc = "snd_ret" /\ sndRes = "ok") =>
        /\ offset < amount_to_send => CallsOf("finish") = {}
        /\ CallsOf("finish") = {} => flag
        /\ ~flag => offset = amount_to_send

C11_SenderEndOfStream == C11_FinishState /\ C11_Returned

C11_Witness ==
    /\ pc = "snd_ret"
    /\ sndRes = "ok"
    /\ amount_to_send > 0
    /\ offset = amount_to_send
    /\ CallsOf("finish") = {}


\* C12 (cancellation flag monotonicity): the flag starts false; it is
\* written only by the ctrl-c task, in the one step that ends that task, so
\* it changes at most once, from false to true; once true it stays true, and
\* every read made after that, by the main task or by either pump through
\* its clone of the receiver, sees true.
C12_State ==
    /\ version \in {0, 1}
    /\ flag <=> version = 1
    /\ flag <=> itask = "done"

C12_Step ==
    /\ flag => flag'
    /\ flag' # flag => /\ itask = "waiting" /\ itask' = "done"
                       /\ pc' = pc /\ call' = call
    /\ (flag /\ pc' # pc) =>
          /\ pc = "snd_check" => pc' = "snd_ret"
          /\ pc = "rcv_check" => pc' = "rcv_ret"
          /\ pc \in {"select_open", "check_quit"} => pc' = "stopped"
          /\ pc = "validate" => "mismatch" \notin log'

C12_FlagMonotonicity ==
    /\ []C12_State
    /\ [][C12_Step]_vars

C12_Witness ==
    /\ flag
    /\ ~entryFlag
    /\ pc = "rcv_ret"
    /\ rcvRes = "ok"
    /\ ~peerClosed
    /\ rcvBatches > 0


\* the sender of this iteration returned a count after a loop check saw the
\* flag (it returned without error and without finish)
SendCancelled == sndRes = "ok" /\ CallsOf("finish") = {}

\* the receiver of this iteration returned a count after a loop check saw
\* the flag (it returned without error while the stream was still open)
RecvCancelled == rcvRes = "ok" /\ ~peerClosed

\* once the flag is set no mismatch is logged
C13_NoLateMismatch == flag => ("mismatch" \in log' <=> "mismatch" \in log)

\* C13 as stated: whenever a send or receive leg returned a partial count
\* because it observed the flag, no mismatch is logged for that iteration or
\* any later one, the main task reaches Stopped, and the process ends with
\* success.
C13_Original ==
    /\ [](SendCancelled \/ RecvCancelled =>
              "mismatch" \notin log /\ exitStatus # "failure")
    /\ [][C13_NoLateMismatch]_vars
    /\ (SendCancelled \/ RecvCancelled) ~>
           (pc = "exited" /\ exitStatus = "success")

\* a cancelled sender is followed by send.close(), which can fail or never
\* complete
CloseFailed ==
    /\ pc = "panicked"
    /\ Len(sendCalls) > 0
    /\ sendCalls[Len(sendCalls)].call = "close"
    /\ rcvBatches = 0

CloseHung == pc = "close_wait" /\ call.op = "close" /\ call.fate = "hang"

\* C13 (cancellation is not an error): after a leg returned a count
\* because it observed the flag, no mismatch is logged for that iteration or
\* any later one.  After a cancelled receive the main task reaches Stopped
\* and the process ends with success.  After a cancelled send the same
\* holds provided the send.close() that follows completes without error:
\* a failing close ends the process with failure, a close that never
\* completes leaves the main task suspended.
C13_State ==
    /\ SendCancelled \/ RecvCancelled => flag /\ "mismatch" \notin log
    /\ RecvCancelled => exitStatus # "failure"
    /\ (SendCancelled /\ exitStatus = "failure") => CloseFailed

C13_CancellationNotAnError ==
    /\ []C13_State
    /\ [][C13_NoLateMismatch]_vars
    /\ RecvCancelled ~> (pc = "exited" /\ exitStatus = "success")
    /\ SendCancelled ~>
           ((pc = "exited" /\ exitStatus = "success") \/ CloseFailed
            \/ CloseHung)

C13_Witness ==
    /\ SendCancelled
    /\ 0 < offset
    /\ offset < amount_to_send
    /\ "sent" \in log
    /\ "mismatch" \notin log
    /\ pc = "exited"
    /\ exitStatus = "success"


\* a pump step: what a transport call that completes with an error is
\* followed by
C15_Step ==
    /\ (pc = "snd_wait" /\ call.fate = "err" /\ pc' # pc) =>
          /\ pc' = "snd_ret" /\ sndRes' = "err"
          /\ sendCalls' = sendCalls /\ offset' = offset
    /\ (pc = "rcv_wait" /\ call.fate = "err" /\ pc' # pc) =>
          /\ pc' = "rcv_ret" /\ rcvRes' = "err"
          /\ rcvBatches' = rcvBatches
          /\ received_data_bytes' = received_data_bytes
    /\ (pc = "snd_data" /\ sndRes' = "err") =>
          /\ pc' = "snd_ret" /\ sendCalls' = sendCalls
    /\ (sndRes = "err" \/ rcvRes = "err") =>
          /\ sendCalls' = sendCalls
          /\ rcvBatches' = rcvBatches
          /\ total_sent' = total_sent
          /\ log' \ {"ctrl_c"} = log \ {"ctrl_c"}
          /\ pc' \in {pc, "panicked"}

\* a pump that returned an error returned no count: nothing was assigned
\* from it and neither "Sent" nor "Rcvd" is logged for it
C15_State ==
    /\ sndRes = "err" =>
          /\ pc \in {"snd_ret", "panicked"}
          /\ total_sent = 0
          /\ CallsOf("finish") = {}
          /\ "sent" \notin log \/ iterDone > 0
    /\ rcvRes = "err" =>
          /\ pc \in {"rcv_ret", "panicked"}
          /\ ~peerClosed

\* C15 (transport error propagation in the pumps): a failing send_vectored
\* or finish makes send_bytes_on_channel return that error at once, with no
\* further batch and no finish afterwards; a failing receive_vectored makes
\* read_all_from_channel return that error at once, with no further
\* receive; neither returns a byte count then.
C15_ErrorPropagation ==
    /\ []C15_State
    /\ [][C15_Step]_vars

C15_Witness ==
    /\ pc = "snd_ret"
    /\ sndRes = "err"
    /\ Cardinality(CallsOf("send_vectored")) = 2
    /\ offset > 0


\* the step that completes the stream open while the flag is set, and the
\* step of the checkpoint after send.close() while the flag is set
C16_Step ==
    /\ (pc = "select_open" /\ flag /\ call' = NoCall) =>
          /\ pc' = "stopped"
          /\ sendCalls' = sendCalls
          /\ iterStarted' = iterStarted
    /\ (pc = "check_quit" /\ flag /\ pc' # pc) =>
          /\ pc' = "stopped"
          /\ rcvBatches' = rcvBatches
    /\ pc \in {"stopped", "exited"} =>
          /\ sendCalls' = sendCalls
          /\ rcvBatches' = rcvBatches
          /\ pc' \in {"stopped", "exited"}

\* stopped at the open: nothing was written on the stream; stopped at the
\* checkpoint: no receive was issued
C16_State ==
    (pc \in {"stopped", "exited"} /\ "mismatch" \notin log) =>
        /\ flag
        /\ sendCalls = <<>> \/
              /\ sendCalls[Len(sendCalls)].call = "close"
              /\ rcvBatches = 0
              /\ rcvRes = "none"

\* C16 (cancellation checkpoints of the loop): if the flag is set when a
\* stream open completes, the main task stops without writing a header or
\* payload on that stream; if the flag is set at the checkpoint after
\* send.close(), it stops without starting the receive leg.
C16_Checkpoints ==
    /\ []C16_State
    /\ [][C16_Step]_vars

C16_Witness ==
    /\ pc = "stopped"
    /\ flag
    /\ Len(sendCalls) > 0
    /\ sendCalls[Len(sendCalls)].call = "close"
    /\ total_sent = amount_to_send
    /\ CallsOf("finish") # {}
    /\ rcvBatches = 0


\* the step in which the stream open completes
C18_Step ==
    (pc = "select_open" /\ call' = NoCall) =>
        /\ flag => /\ pc' = "stopped"
                   /\ exitStatus' = "running"
                   /\ iterStarted' = iterStarted
        /\ (~flag /\ call.fate = "err") =>
                   /\ pc' = "panicked"
                   /\ exitStatus' = "failure"
        /\ pc' = "panicked" => (~flag /\ call.fate = "err")

\* the open completed with an error while the flag was set: no stream was
\* added, nothing was written and no quit message was logged by a select!
\* branch
StoppedAtFailedOpen ==
    /\ pc \in {"stopped", "exited"}
    /\ flag
    /\ sendCalls = <<>>
    /\ streamsOpened = iterStarted
    /\ log \cap {"sigint", "quit_setup", "mismatch"} = {}

\* C18 (open error under cancellation): the result of
\* open_bidirectional_stream is unwrapped only when the flag is not set; an
\* open that completes with an error while the flag is set makes the main
\* task stop normally and the process succeed, and an open error makes the
\* task panic only when the flag is not set at that moment.
C18_OpenErrorUnderCancel ==
    /\ [][C18_Step]_vars
    /\ [](StoppedAtFailedOpen => exitStatus # "failure")
    /\ [](pc = "exited" => exitStatus = "success")

C18_Witness ==
    /\ StoppedAtFailedOpen
    /\ pc = "exited"
    /\ exitStatus = "success"
    /\ iterDone = 1


\* every transport call that is in flight completes successfully, and so
\* does finish()
C19_CallsSucceed ==
    /\ call.fate \in {"none", "ok"}
    /\ sndRes # "err"

\* once the flag is set no iteration is started, and the only header that
\* can still be sent is that of the iteration already in progress
C19_Step ==
    flag =>
        /\ iterStarted' = iterStarted
        /\ pc # "send_header" => pc' # "send_header"
        /\ Cardinality(CallsOf("send")') <= 1

\* C19 (cancellation liveness): when every transport call that is started
\* completes successfully and the main task is scheduled fairly, once the
\* flag is set the main task eventually reaches Stopped; it completes at
\* most the steps of the iteration in progress and starts no further
\* iteration, so it sends no header other than that iteration's.
C19_CancellationLiveness ==
    /\ [][C19_Step]_vars
    /\ []C19_CallsSucceed => (flag ~> pc \in {"stopped", "exited"})

C19_Witness ==
    /\ pc = "exited"
    /\ C19_CallsSucceed
    /\ entryFlag
    /\ iterStarted = 2
    /\ iterDone = 1
    /\ sendCalls = <<[call |-> "send",
                      bytes |-> ToBeBytes(amount_to_request),
                      count |-> 1, len |-> HeaderLen],
                    [call |-> "close", bytes |-> <<>>, count |-> 0,
                     len |-> 0]>>


\* the positions after send.close().await.unwrap() of the iteration
AfterClose == RcvPcs \cup {"check_quit", "validate", "stopped", "exited"}

\* a header was sent on the current stream and the sender returned Ok
C20_SenderReturned ==
    /\ CallsOf("send") # {}
    /\ sndRes = "ok"
    /\ pc # "snd_ret"

C20_State ==
    C20_SenderReturned =>
        /\ pc # "close" =>
              /\ CallsOf("close") = {Len(sendCalls)}
              /\ CallsOf("send_vectored") \cup CallsOf("finish")
                    \subseteq 1..(Len(sendCalls) - 1)
        /\ pc \in AfterClose => call.op # "close"
        /\ rcvBatches > 0 => pc # "close"

C20_Step ==
    (C20_SenderReturned /\ pc' # pc /\ pc' \in AfterClose) =>
        /\ CallsOf("close") # {}
        /\ pc = "close_wait" => call.fate = "ok"

\* C20 (send side closed before the receive leg or the stop): in every
\* iteration in which the header was sent and the sender returned without
\* error, send.close() is called, and has completed, before the receive leg
\* is started or the loop is left, also when the sender was cancelled early
\* and returned fewer than amount_to_send bytes; the loop is never left
\* with such a stream's send side not closed.
C20_CloseBeforeReceiveOrStop ==
    /\ []C20_State
    /\ [][C20_Step]_vars

C20_Witness ==
    /\ pc = "stopped"
    /\ C20_SenderReturned
    /\ 0 < total_sent
    /\ total_sent < amount_to_send
    /\ CallsOf("close") = {Len(sendCalls)}
    /\ rcvBatches = 0


\* everything the logger has written to its writer, in order
SinkBytes == logfile_writer.file \o logfile_writer.buf

\* the texts between the separators of s; a text that ends with a separator
\* has an empty last part
RECURSIVE Split(_, _)
Split(s, sep) ==
    IF \A k \in 1..Len(s) : s[k] # sep THEN <<s>>
    ELSE LET k == CHOOSE i \in 1..Len(s) :
                      /\ s[i] = sep
                      /\ \A j \in 1..(i - 1) : s[j] # sep
         IN  <<SubSeq(s, 1, k - 1)>> \o Split(SubSeq(s, k + 1, Len(s)), sep)

\* what the column called name holds for a delivered event
ColumnValue(d, name) ==
    CASE name = "time" -> d.now.secs * NanosPerSec + d.now.nanos
      [] name = "conn_id" -> d.meta.id
      [] name = "pto_count" -> d.event.pto_count
      [] name = "congestion_window" -> d.event.congestion_window
      [] name = "bytes_in_flight" -> d.event.bytes_in_flight
      [] OTHER -> d.event[name].secs * NanosPerSec + d.event[name].nanos

\* C14 (sink row format): for every sequence of recovery-metrics events
\* delivered to a logger, what it has written is the header row followed by
\* one newline-terminated row per event, in the order of the events; every
\* row has exactly 10 comma-separated fields, those of the header being the
\* column names and those of the row of an event being that event's values
\* in the header's column order.
C14_SinkRowFormat ==
    logger # "none" =>
        LET lines == Split(SinkBytes, "\n")
            rows == SubSeq(lines, 1, Len(lines) - 1)
        IN  /\ lines[Len(lines)] = <<>>
            /\ Len(rows) = 1 + Len(delivered)
            /\ \A r \in 1..Len(rows) : Len(Split(rows[r], ",")) = 10
            /\ Split(rows[1], ",") =
                   [j \in 1..10 |-> <<header_fields[j]>>]
            /\ \A i \in 1..Len(delivered) :
                   Split(rows[i + 1], ",") =
                       [j \in 1..10 |->
                           <<ToString(ColumnValue(delivered[i],
                                                  header_fields[j]))>>]

C14_Witness ==
    /\ logger = "live"
    /\ Len(delivered) = 2
    /\ delivered[1].event # delivered[2].event
    /\ delivered[1].meta.id > delivered[2].meta.id
    /\ logfile_writer.file # <<>>
    /\ logfile_writer.buf # <<>>


RECURSIVE Concat(_)
Concat(pieces) ==
    IF pieces = <<>> THEN <<>> ELSE pieces[1] \o Concat(Tail(pieces))

\* the header row and the rows of the first n delivered events
RECURSIVE RowsWritten(_)
RowsWritten(n) ==
    IF n = 0 THEN join(header_fields, ",") \o <<"\n">>
    ELSE RowsWritten(n - 1)
             \o Concat(RowPieces(delivered[n].now, delivered[n].meta,
                                 delivered[n].event))

\* the teardown step, and what follows it
C17_Step ==
    /\ (logger = "live" /\ logger' = "dropped") =>
          /\ logfile_writer'.file = logfile_writer.file \o logfile_writer.buf
          /\ logfile_writer'.buf = <<>>
          /\ delivered' = delivered
    /\ logger = "dropped" => UNCHANGED sinkVars

C17_State ==
    logger = "dropped" =>
        /\ logfile_writer.buf = <<>>
        /\ logfile_writer.file = RowsWritten(Len(delivered))

\* C17 (sink flush on teardown): when the logger is dropped its writer is
\* flushed before it is released, so after the teardown the file holds the
\* header row and the row of every event delivered since construction, and
\* nothing is left in the buffer only.
C17_FlushOnTeardown ==
    /\ []C17_State
    /\ [][C17_Step]_vars

C17_Witness ==
    /\ logger = "dropped"
    /\ Len(delivered) = 2
    /\ Len(logfile_writer.file) = 3 * 2 * Len(header_fields)

====
